---- MODULE Spec2Model ----
(***************************************************************************)
(* Model of scripts/regenerate_chunks.py: the chunk regeneration pipeline  *)
(* (main, process_appendix, create_chunks_from_section,                    *)
(* merge_small_chunks) and its text helpers.                               *)
(*                                                                         *)
(* A text (a Python str) is a sequence of runs.  A run is either a slice   *)
(* [lo, hi) of one paragraph of one section of one appendix file, or a run *)
(* of whitespace.  The length of a text is the sum of the widths of its    *)
(* runs, so the size thresholds of the script keep their real values.      *)
(***************************************************************************)
EXTENDS Integers, Sequences, FiniteSets, TLC

\* ---------------------------------------------------------------- bounds
MaxFiles == 2            \* appendix files in the input directory
MaxTotalSections == 2    \* sections in the whole corpus
MaxParas == 3            \* paragraphs of a section handed to the chunker alone

\* ------------------------------------------------- configuration (l.19-22)
TARGET_CHUNK_SIZE == 1200
MIN_CHUNK_SIZE == 200
MAX_CHUNK_SIZE == 2000
OVERLAP_SIZE == 200

\* The four regular expressions of PLACEHOLDER_PATTERNS, by name.
PLACEHOLDER_PATTERNS ==
    {"missing from syllabus", "[placeholder]", "[to be added]", "[section missing]"}

\* ------------------------------------------------------------------ texts
WS == <<0, 0, 0>>        \* the source of a whitespace run

Run(src, lo, hi, mark) == [src |-> src, lo |-> lo, hi |-> hi, mark |-> mark]

Space(n) == IF n = 0 THEN <<>> ELSE << Run(WS, 0, n, "none") >>

\* "\n\n"
NL2 == Space(2)

\* One whole paragraph: paragraph p of section s of file f, n characters; mark
\* names the placeholder pattern that occurs in it ("none": no pattern does).
Para(f, s, p, n, mark) == << Run(<<f, s, p>>, 0, n, mark) >>

Width(r) == r.hi - r.lo

\* len(text)
RECURSIVE len(_)
len(t) == IF t = <<>> THEN 0 ELSE Width(t[1]) + len(Tail(t))

\* a + b on str: adjacent whitespace becomes one whitespace run
Concat(a, b) ==
    IF a = <<>> THEN b
    ELSE IF b = <<>> THEN a
    ELSE IF a[Len(a)].src = WS /\ b[1].src = WS
         THEN SubSeq(a, 1, Len(a) - 1)
                \o << Run(WS, 0, Width(a[Len(a)]) + Width(b[1]), "none") >>
                \o Tail(b)
         ELSE a \o b

\* text[-n:] for n > 0
RECURSIVE Suffix(_, _)
Suffix(t, n) ==
    IF t = <<>> \/ n <= 0 THEN <<>>
    ELSE LET last == t[Len(t)]
             front == SubSeq(t, 1, Len(t) - 1)
         IN IF Width(last) >= n
            THEN IF last.src = WS
                 THEN << Run(WS, 0, n, "none") >>
                 ELSE << Run(last.src, last.hi - n, last.hi, last.mark) >>
            ELSE Suffix(front, n - Width(last)) \o << last >>

\* text.lstrip()
LStrip(t) == IF t # <<>> /\ t[1].src = WS THEN Tail(t) ELSE t

\* text.strip()
strip(t) ==
    LET l == LStrip(t)
    IN IF l # <<>> /\ l[Len(l)].src = WS THEN SubSeq(l, 1, Len(l) - 1) ELSE l

\* re.search(pattern, text, re.IGNORECASE): the pattern occurs in a paragraph
\* slice that still holds the start of the paragraph, where the phrase stands.
re_search(pattern, text) ==
    \E i \in 1..Len(text) : text[i].mark = pattern /\ text[i].lo = 0

\* Mutant of is_placeholder_content: the length tested is that of the text as
\* given, not trimmed.
IsPlaceholderUntrimmed(text) ==
    \E pattern \in PLACEHOLDER_PATTERNS :
        re_search(pattern, strip(text)) /\ len(text) < 100

\* ---------------------------------------------------------- the functions
is_placeholder_content(text) ==
    \E pattern \in PLACEHOLDER_PATTERNS :
        re_search(pattern, strip(text)) /\ len(strip(text)) < 100

\* The paragraphs of a text: its pieces between blank lines, each stripped,
\* the empty ones dropped.  The paragraphs of the contents drawn below hold
\* no whitespace and none of the heading starts the pattern of line 45 also
\* splits at, so the pieces are the paragraph runs.
split_into_paragraphs(text) ==
    LET body == SelectSeq(text, LAMBDA r : r.src # WS)
    IN [i \in 1..Len(body) |-> << body[i] >>]

\* The dict literal of a chunk (lines 60-66, 76-82, 91-97).
Chunk(text, section_id, section_title, appendix, appendix_title) ==
    [text |-> text, section_id |-> section_id, section_title |-> section_title,
     appendix |-> appendix, appendix_title |-> appendix_title]

\* Mutant of NewBuffer: the new buffer starts with no overlap.
NewBufferNoOverlap(current_chunk, para) == para

\* Lines 84-85: the buffer a flush leaves behind.
NewBuffer(current_chunk, para) ==
    LET overlap_text == IF len(current_chunk) > OVERLAP_SIZE
                        THEN Suffix(current_chunk, OVERLAP_SIZE)
                        ELSE <<>>
    IN IF overlap_text # <<>>
       THEN Concat(Concat(overlap_text, NL2), para)
       ELSE para

\* Line 75: the buffer is flushed before para is taken.
MustFlush(current_chunk, para) ==
    /\ len(current_chunk) + len(para) + 2 > MAX_CHUNK_SIZE
    /\ len(current_chunk) >= MIN_CHUNK_SIZE

\* Lines 73-87: the loop over the paragraphs, from paragraph i on.
RECURSIVE SplitLoop(_, _, _, _, _)
SplitLoop(paragraphs, i, current_chunk, chunks, meta) ==
    IF i > Len(paragraphs) THEN [current_chunk |-> current_chunk, chunks |-> chunks]
    ELSE LET para == paragraphs[i]
         IN IF MustFlush(current_chunk, para)
            THEN SplitLoop(paragraphs, i + 1, NewBuffer(current_chunk, para),
                           Append(chunks,
                                  Chunk(strip(current_chunk), meta.section_id,
                                        meta.section_title, meta.appendix,
                                        meta.appendix_title)),
                           meta)
            ELSE SplitLoop(paragraphs, i + 1,
                           IF current_chunk # <<>>
                           THEN Concat(Concat(current_chunk, NL2), para)
                           ELSE para,
                           chunks, meta)

\* Lines 89-100: the last buffer.
LastChunk(current_chunk, chunks, meta) ==
    LET rest == strip(current_chunk)
    IN IF rest # <<>> /\ len(rest) >= MIN_CHUNK_SIZE
       THEN Append(chunks, Chunk(rest, meta.section_id, meta.section_title,
                                 meta.appendix, meta.appendix_title))
       ELSE IF rest # <<>> /\ chunks # <<>>
            THEN [chunks EXCEPT ![Len(chunks)].text = Concat(Concat(@, NL2), rest)]
            ELSE chunks

\* Mutant of WholeSection: the text is stripped, as the split chunks are.
WholeSectionStripped(section_content, meta) ==
    IF len(section_content) >= MIN_CHUNK_SIZE
    THEN << Chunk(strip(section_content), meta.section_id, meta.section_title,
                  meta.appendix, meta.appendix_title) >>
    ELSE <<>>

\* Lines 57-67: a section no longer than MAX_CHUNK_SIZE.
WholeSection(section_content, meta) ==
    IF len(section_content) >= MIN_CHUNK_SIZE
    THEN << Chunk(section_content, meta.section_id, meta.section_title,
                  meta.appendix, meta.appendix_title) >>
    ELSE <<>>

\* Line 58.
FitsOneChunk(section_content) == len(section_content) <= MAX_CHUNK_SIZE

\* The result is the list returned, with the lines printed (the ids of the
\* sections skipped as placeholders).
create_chunks_from_section(section_content, section_id, section_title, appendix, appendix_title) ==
    LET meta == [section_id |-> section_id, section_title |-> section_title,
                 appendix |-> appendix, appendix_title |-> appendix_title]
    IN IF is_placeholder_content(section_content)
       THEN [chunks |-> <<>>, skipped |-> << section_id >>]
       ELSE IF FitsOneChunk(section_content)
       THEN [chunks |-> WholeSection(section_content, meta), skipped |-> <<>>]
       ELSE LET end == SplitLoop(split_into_paragraphs(section_content), 1,
                                 <<>>, <<>>, meta)
            IN [chunks |-> LastChunk(end.current_chunk, end.chunks, meta),
                skipped |-> <<>>]

\* Mutant of CanMerge: chunks are merged up to the target size only.
CanMergeUpToTarget(current, chunk) ==
    /\ current.section_id = chunk.section_id
    /\ len(current.text) + len(chunk.text) + 2 <= TARGET_CHUNK_SIZE

\* Lines 144-145: chunk is merged into the pending chunk current.
CanMerge(current, chunk) ==
    /\ current.section_id = chunk.section_id
    /\ len(current.text) + len(chunk.text) + 2 <= MAX_CHUNK_SIZE

\* Lines 138-156: the loop over the chunks from chunk i on, and the last chunk.
RECURSIVE MergeLoop(_, _, _, _)
MergeLoop(chunks, i, current, merged) ==
    LET saved == IF len(current.text) >= MIN_CHUNK_SIZE
                 THEN Append(merged, current)
                 ELSE merged
    IN IF i > Len(chunks) THEN saved
       ELSE LET chunk == chunks[i]
            IN IF CanMerge(current, chunk)
               THEN MergeLoop(chunks, i + 1,
                              [current EXCEPT
                                 !.text = Concat(Concat(@, NL2), chunk.text)],
                              merged)
               ELSE MergeLoop(chunks, i + 1, chunk, saved)

merge_small_chunks(chunks) ==
    IF chunks = <<>> THEN chunks ELSE MergeLoop(chunks, 2, chunks[1], <<>>)

\* A dict has the key.
Has(rec, key) == key \in DOMAIN rec

\* The first key among keys (in the order the code reads them) that rec lacks.
RECURSIVE FirstMissing(_, _)
FirstMissing(rec, keys) ==
    IF keys = <<>> THEN "none"
    ELSE IF ~Has(rec, Head(keys)) THEN Head(keys)
    ELSE FirstMissing(rec, Tail(keys))

\* Lines 115-126: the loop over data['sections'] from section s on.  A KeyError
\* leaves the function at once: error names the missing key.
RECURSIVE SectionLoop(_, _, _, _)
SectionLoop(data, s, chunks, skipped) ==
    IF s > Len(data.sections)
    THEN [error |-> "none", chunks |-> chunks, skipped |-> skipped]
    ELSE LET section == data.sections[s]
             missing == FirstMissing(section, <<"id", "title", "content">>)
         IN IF missing # "none"
            THEN [error |-> missing, chunks |-> <<>>, skipped |-> skipped]
            ELSE LET r == create_chunks_from_section(section.content, section.id,
                                                     section.title, data.letter,
                                                     data.title)
                 IN SectionLoop(data, s + 1, chunks \o r.chunks,
                                skipped \o r.skipped)

\* Mutant of process_appendix: a record or a section with a field missing is
\* skipped, and the run goes on.
ProcessAppendixSkipping(data) ==
    IF FirstMissing(data, <<"letter", "title", "sections">>) # "none"
    THEN [error |-> "none", chunks |-> <<>>, skipped |-> <<>>]
    ELSE SectionLoop([data EXCEPT !.sections =
                        SelectSeq(@, LAMBDA sec :
                            FirstMissing(sec, <<"id", "title", "content">>) = "none")],
                     1, <<>>, <<>>)

process_appendix(data) ==
    LET missing == FirstMissing(data, <<"letter", "title", "sections">>)
    IN IF missing # "none"
       THEN [error |-> missing, chunks |-> <<>>, skipped |-> <<>>]
       ELSE SectionLoop(data, 1, <<>>, <<>>)

\* Mutant of sorted: the files come in another order, the last name first.
RECURSIVE Unsorted(_)
Unsorted(S) ==
    IF S = {} THEN <<>>
    ELSE LET m == CHOOSE x \in S : \A y \in S : x >= y
         IN << m >> \o Unsorted(S \ {m})

\* sorted(...) of a set of file names (line 168).
RECURSIVE sorted(_)
sorted(S) ==
    IF S = {} THEN <<>>
    ELSE LET m == CHOOSE x \in S : \A y \in S : x <= y
         IN << m >> \o sorted(S \ {m})

\* Lines 176-177: chunk['id'] = f'chunk_{i}'.
AddIdsTo(chunks) ==
    [i \in 1..Len(chunks) |-> chunks[i] @@ [id |-> <<"chunk", i - 1>>]]

\* ----------------------------------------------------------------- inputs
FileNames == 1..MaxFiles
SectionIds == {"s1", "s2"}

\* Section contents: leading blanks, paragraph lengths, trailing blanks, and
\* the placeholder pattern the first paragraph holds.
Shape(lead, paras, trail, mark) ==
    [lead |-> lead, paras |-> paras, trail |-> trail, mark |-> mark]

\* The text of a section of that shape: section s of file f.
RECURSIVE JoinParas(_, _, _, _)
JoinParas(f, s, shape, n) ==
    IF n = 0 THEN Space(shape.lead)
    ELSE LET p == Para(f, s, n, shape.paras[n],
                       IF n = 1 THEN shape.mark ELSE "none")
         IN IF n = 1 THEN Concat(Space(shape.lead), p)
            ELSE Concat(Concat(JoinParas(f, s, shape, n - 1), NL2), p)

Content(f, s, shape) ==
    Concat(JoinParas(f, s, shape, Len(shape.paras)), Space(shape.trail))

\* The contents the corpus draws from.
CorpusShapes ==
    { Shape(0, <<50>>, 0, "none"), Shape(0, <<60>>, 0, "none"),
      Shape(0, <<300>>, 0, "none"), Shape(0, <<1000>>, 0, "none"),
      Shape(0, <<2100>>, 0, "none"), Shape(0, <<900, 900, 900>>, 0, "none") }

SectionInputs(f, s) ==
    { [id |-> i, title |-> <<"section", f, s>>, content |-> Content(f, s, shape)] :
        i \in SectionIds, shape \in CorpusShapes }

RECURSIVE SectionLists(_, _)
SectionLists(f, k) ==
    IF k = 0 THEN { <<>> }
    ELSE { Append(l, x) : l \in SectionLists(f, k - 1), x \in SectionInputs(f, k) }

Letter(f) == <<"letter", f>>

\* The well-formed contents of file f with at most budget sections.
WellFormed(f, budget) ==
    { [letter |-> Letter(f), title |-> <<"appendix", f>>, sections |-> l] :
        l \in UNION { SectionLists(f, k) : k \in 0..budget } }

Without(rec, key) == [k \in DOMAIN rec \ {key} |-> rec[k]]

\* The same contents with one required field missing.
Malformed(f, budget) ==
    { Without(d, key) : d \in WellFormed(f, budget),
                        key \in {"letter", "title", "sections"} }
    \cup
    UNION { { [d EXCEPT !.sections[s] = Without(@, key)] :
                s \in 1..Len(d.sections), key \in {"id", "title", "content"} } :
            d \in WellFormed(f, budget) }

\* ------------------------------------------------------------------ state
VARIABLES
    pc,             \* where main (or the call of the chunker) stands
    files,          \* the appendix files main has still to process, in order
    corpus,         \* the appendix records read and processed so far
    all_chunks,     \* main's all_chunks
    skipped,        \* the ids printed as "Skipping placeholder section"
    error,          \* the key whose KeyError ended the run, or "none"
    output,         \* chunks.json: whether it was written, and its contents
    section,        \* the arguments of a call of create_chunks_from_section
    section_chunks  \* what that call returned

vars == <<pc, files, corpus, all_chunks, skipped, error, output, section, section_chunks>>

NoSection == [content |-> <<>>, section_id |-> "s1", section_title |-> <<"section", 1, 1>>, appendix |-> Letter(1), appendix_title |-> <<"appendix", 1>>]

NoFile == [written |-> FALSE, chunks |-> <<>>]

RECURSIVE SectionsRead(_)
SectionsRead(c) ==
    IF c = <<>> THEN 0 ELSE Len(Head(c).sections) + SectionsRead(Tail(c))

\* ------------------------------------------------------------------- main
Init ==
    /\ pc = "load"
    /\ \E dir \in SUBSET FileNames : files = sorted(dir)
    /\ corpus = <<>>
    /\ all_chunks = <<>>
    /\ skipped = <<>>
    /\ error = "none"
    /\ output = NoFile
    /\ section = NoSection
    /\ section_chunks = <<>>

\* Lines 168-170: one turn of the loop over the sorted files.
ProcessAppendix ==
    /\ pc = "load"
    /\ files # <<>>
    /\ LET f == Head(files)
           budget == MaxTotalSections - SectionsRead(corpus)
       IN \E data \in WellFormed(f, budget) \cup Malformed(f, budget) :
            LET r == process_appendix(data)
            IN /\ skipped' = skipped \o r.skipped
               /\ IF r.error = "none"
                  THEN /\ all_chunks' = all_chunks \o r.chunks
                       /\ files' = Tail(files)
                       /\ corpus' = Append(corpus, data)
                       /\ UNCHANGED <<pc, error>>
                  ELSE /\ pc' = "aborted"
                       /\ error' = r.error
                       /\ UNCHANGED <<all_chunks, files, corpus>>
    /\ UNCHANGED <<output, section, section_chunks>>

\* Line 173.
MergeSmallChunks ==
    /\ pc = "load"
    /\ files = <<>>
    /\ all_chunks' = merge_small_chunks(all_chunks)
    /\ pc' = "merged"
    /\ UNCHANGED <<files, corpus, skipped, error, output, section, section_chunks>>

\* Lines 176-177.
AddIds ==
    /\ pc = "merged"
    /\ all_chunks' = AddIdsTo(all_chunks)
    /\ pc' = "numbered"
    /\ UNCHANGED <<files, corpus, skipped, error, output, section, section_chunks>>

\* Lines 180-207: the statistics are only printed; the file is written.
WriteOutput ==
    /\ pc = "numbered"
    /\ output' = [written |-> TRUE, chunks |-> all_chunks]
    /\ pc' = "done"
    /\ UNCHANGED <<files, corpus, all_chunks, skipped, error, section, section_chunks>>

Next == ProcessAppendix \/ MergeSmallChunks \/ AddIds \/ WriteOutput

Spec == Init /\ [][Next]_vars

\* ------------------------------------ create_chunks_from_section on its own
ParaLens == {60, 99, 100, 200, 900, 1898, 2000}

RECURSIVE ParaLists(_)
ParaLists(k) ==
    IF k = 0 THEN { <<>> }
    ELSE { Append(l, n) : l \in ParaLists(k - 1), n \in ParaLens }

\* The contents the chunker is called with.
ChunkerShapes ==
    { Shape(lead, paras, trail, mark) :
        lead \in {0, 1}, trail \in {0, 1},
        paras \in UNION { ParaLists(k) : k \in 1..MaxParas },
        mark \in {"none", "[placeholder]", "missing from syllabus"} }

SectionArgs ==
    { [content |-> Content(1, 1, shape), section_id |-> i,
       section_title |-> <<"section", 1, 1>>, appendix |-> Letter(1),
       appendix_title |-> <<"appendix", 1>>] :
        shape \in ChunkerShapes, i \in SectionIds }

InitSection ==
    /\ pc = "call"
    /\ section \in SectionArgs
    /\ section_chunks = <<>>
    /\ skipped = <<>>
    /\ files = <<>>
    /\ corpus = <<>>
    /\ all_chunks = <<>>
    /\ error = "none"
    /\ output = NoFile

\* Lines 48-102: one call.
CreateChunks ==
    /\ pc = "call"
    /\ LET r == create_chunks_from_section(section.content, section.section_id,
                                           section.section_title, section.appendix,
                                           section.appendix_title)
       IN /\ section_chunks' = r.chunks
          /\ skipped' = r.skipped
    /\ pc' = "return"
    /\ UNCHANGED <<files, corpus, all_chunks, error, output, section>>

NextSection == CreateChunks

SpecSection == InitSection /\ [][NextSection]_vars

\* ----------------------------------------------------- reading the states
\* The paragraphs a text holds text of.
Origins(text) == { text[i].src : i \in { j \in 1..Len(text) : text[j].src # WS } }

\* The sections (file, index) a text holds text of.
OriginSections(text) == { <<src[1], src[2]>> : src \in Origins(text) }

\* The last paragraph a text holds text of.
LastPara(text) ==
    LET body == SelectSeq(text, LAMBDA r : r.src # WS)
    IN body[Len(body)].src

\* a comes before b, or is b, in corpus order.
LexLeq(a, b) ==
    \/ a = b
    \/ \E k \in 1..Len(a) :
         /\ \A j \in 1..(k - 1) : a[j] = b[j]
         /\ a[k] < b[k]

\* The sections read so far, as (position in corpus, index) pairs.
CorpusSections ==
    { as \in (1..Len(corpus)) \X (1..MaxTotalSections) :
        as[2] <= Len(corpus[as[1]].sections) }

SectionOf(as) == corpus[as[1]].sections[as[2]]

\* The paragraphs of a section's content, each whole.
WholeParagraphs(content) ==
    { content[i] : i \in { j \in 1..Len(content) : content[j].src # WS } }

\* The chunk holds that whole paragraph.
Holds(chunk, run) == \E j \in 1..Len(chunk.text) : chunk.text[j] = run

\* ----------------------------------------------------------------- claims

\* C1: in the written output every chunk but the very last one has between
\* MIN_CHUNK_SIZE and MAX_CHUNK_SIZE characters.
C1_SizeBounds ==
    pc = "done" =>
        \A i \in 1..(Len(output.chunks) - 1) :
            /\ MIN_CHUNK_SIZE <= len(output.chunks[i].text)
            /\ len(output.chunks[i].text) <= MAX_CHUNK_SIZE

\* C2: for every section that is not filtered as a placeholder, each of its
\* paragraphs is held by a written chunk that carries the section's id.
C2_NoParagraphLost ==
    pc = "done" =>
        \A as \in CorpusSections :
            ~is_placeholder_content(SectionOf(as).content) =>
                \A run \in WholeParagraphs(SectionOf(as).content) :
                    \E i \in 1..Len(output.chunks) :
                        /\ output.chunks[i].section_id = SectionOf(as).id
                        /\ Holds(output.chunks[i], run)

\* The chunks stand in corpus order: a later chunk holds no text of an earlier
\* section than any chunk before it, and it ends at a later paragraph.
InOrder(chunks) ==
    \A i, j \in 1..Len(chunks) :
        i < j =>
            /\ \A a \in OriginSections(chunks[i].text) :
                 \A b \in OriginSections(chunks[j].text) : LexLeq(a, b)
            /\ LastPara(chunks[i].text) # LastPara(chunks[j].text)
            /\ LexLeq(LastPara(chunks[i].text), LastPara(chunks[j].text))

\* C3: at every point of the run, and in the written file, the chunks stand in
\* the order of the sorted file names, then of the sections of a file, then of
\* the paragraphs of a section: a later chunk holds no text of an earlier
\* section than any chunk before it (so the chunks of one section are
\* contiguous), and it ends at a later paragraph.
C3_OutputOrder == InOrder(all_chunks) /\ InOrder(output.chunks)

\* C3 witness: the written file holds two chunks of one section and a chunk
\* merged from the text of two appendix files.
C3_Witness ==
    /\ pc = "done"
    /\ \E i, j \in 1..Len(output.chunks) :
         /\ i < j
         /\ OriginSections(output.chunks[i].text)
              \cap OriginSections(output.chunks[j].text) # {}
    /\ \E i \in 1..Len(output.chunks) :
         Cardinality({ o[1] : o \in OriginSections(output.chunks[i].text) }) > 1

\* C4: two adjacent sections of one appendix with the same id, each shorter
\* than MIN_CHUNK_SIZE and together no longer than MAX_CHUNK_SIZE, end up in
\* exactly one written chunk, at least as long as the two contents together.
C4_SmallNeighboursMerged ==
    pc = "done" =>
        \A as \in CorpusSections :
            LET a == as[1]
                s == as[2]
            IN (/\ s + 1 <= Len(corpus[a].sections)
                /\ corpus[a].sections[s].id = corpus[a].sections[s + 1].id
                /\ len(corpus[a].sections[s].content) < MIN_CHUNK_SIZE
                /\ len(corpus[a].sections[s + 1].content) < MIN_CHUNK_SIZE
                /\ len(corpus[a].sections[s].content)
                     + len(corpus[a].sections[s + 1].content) <= MAX_CHUNK_SIZE)
               => LET both == WholeParagraphs(corpus[a].sections[s].content)
                                \cup WholeParagraphs(corpus[a].sections[s + 1].content)
                      holders == { i \in 1..Len(output.chunks) :
                                     \E run \in both : Holds(output.chunks[i], run) }
                  IN /\ Cardinality(holders) = 1
                     /\ \A i \in holders :
                          /\ \A run \in both : Holds(output.chunks[i], run)
                          /\ len(output.chunks[i].text)
                               >= len(corpus[a].sections[s].content)
                                    + len(corpus[a].sections[s + 1].content)

\* C5 as stated: in what merge_small_chunks returns, no two adjacent chunks
\* with the same section_id have len(a.text) + len(b.text) <= MAX_CHUNK_SIZE.
C5_NoMergeablePair ==
    pc = "merged" =>
        \A i \in 1..(Len(all_chunks) - 1) :
            all_chunks[i].section_id = all_chunks[i + 1].section_id =>
                len(all_chunks[i].text) + len(all_chunks[i + 1].text) > MAX_CHUNK_SIZE

\* C5 amended: in what merge_small_chunks returns to main, no two adjacent
\* chunks with the same section_id have
\* len(a.text) + 2 + len(b.text) <= MAX_CHUNK_SIZE: the two characters of the
\* separator count.
C5_NoMergeablePairWithSeparator ==
    pc \in {"merged", "numbered", "done"} =>
        \A i \in 1..(Len(all_chunks) - 1) :
            all_chunks[i].section_id = all_chunks[i + 1].section_id =>
                len(all_chunks[i].text) + len(all_chunks[i + 1].text) + 2
                    > MAX_CHUNK_SIZE

\* C5 witness: merge_small_chunks has returned two adjacent chunks of one
\* section_id whose texts alone fit MAX_CHUNK_SIZE.
C5_Witness ==
    /\ pc = "merged"
    /\ \E i \in 1..(Len(all_chunks) - 1) :
         /\ all_chunks[i].section_id = all_chunks[i + 1].section_id
         /\ len(all_chunks[i].text) + len(all_chunks[i + 1].text) <= MAX_CHUNK_SIZE

\* The chunk next starts with the trailing OVERLAP_SIZE characters of the
\* chunk prev, then a blank line, then the start of the paragraph after the
\* last one of prev.
StartsWithOverlap(prev, next) ==
    LET ov == LStrip(Suffix(prev, OVERLAP_SIZE))
        n == Len(ov)
    IN /\ Len(next) >= n + 2
       /\ SubSeq(next, 1, n) = ov
       /\ << next[n + 1] >> = NL2
       /\ next[n + 2].lo = 0
       /\ next[n + 2].src = [LastPara(prev) EXCEPT ![3] = @ + 1]

\* The chunk next starts with the paragraph after the last one of prev.
StartsWithParagraph(prev, next) ==
    /\ next[1].lo = 0
    /\ next[1].src = [LastPara(prev) EXCEPT ![3] = @ + 1]

\* The call split a section longer than MAX_CHUNK_SIZE.
SplitReturned ==
    /\ pc = "return"
    /\ ~is_placeholder_content(section.content)
    /\ ~FitsOneChunk(section.content)

Unmark(text) == [i \in 1..Len(text) |-> [text[i] EXCEPT !.mark = "none"]]

UnmarkChunks(chunks) ==
    [i \in 1..Len(chunks) |-> [chunks[i] EXCEPT !.text = Unmark(@)]]

\* The content holds a placeholder phrase.
MatchesPlaceholder(text) == \E i \in 1..Len(text) : text[i].mark # "none"

\* C7: a section is skipped as a placeholder, and yields no chunk, exactly when
\* its content holds a placeholder phrase and has fewer than 100 characters
\* once trimmed; content that holds a phrase and has 100 trimmed characters or
\* more is chunked as the same content without the phrase would be.
C7_PlaceholderFilter ==
    pc = "return" =>
        LET c == section.content
            short == len(strip(c)) < 100
        IN /\ (skipped # <<>>) <=> (MatchesPlaceholder(c) /\ short)
           /\ skipped # <<>> => section_chunks = <<>>
           /\ (MatchesPlaceholder(c) /\ ~short) =>
                UnmarkChunks(section_chunks)
                  = create_chunks_from_section(Unmark(c), section.section_id,
                                               section.section_title,
                                               section.appendix,
                                               section.appendix_title).chunks

\* C7 witness: content with a placeholder phrase and 100 trimmed characters or
\* more was chunked.
C7_Witness ==
    /\ pc = "return"
    /\ MatchesPlaceholder(section.content)
    /\ len(strip(section.content)) >= 100
    /\ section_chunks # <<>>
    /\ skipped = <<>>

\* C8: content that is no placeholder and has between MIN_CHUNK_SIZE and
\* MAX_CHUNK_SIZE characters, both included, comes back as one chunk: the
\* content verbatim, with the four fields passed in.
C8_OneChunkVerbatim ==
    (/\ pc = "return"
     /\ ~(MatchesPlaceholder(section.content) /\ len(strip(section.content)) < 100)
     /\ MIN_CHUNK_SIZE <= len(section.content)
     /\ len(section.content) <= MAX_CHUNK_SIZE)
    => section_chunks
         = << [text |-> section.content, section_id |-> section.section_id,
               section_title |-> section.section_title,
               appendix |-> section.appendix,
               appendix_title |-> section.appendix_title] >>

\* C8 witness: content of exactly MAX_CHUNK_SIZE characters that starts with
\* whitespace came back as one chunk.
C8_Witness ==
    /\ pc = "return"
    /\ len(section.content) = MAX_CHUNK_SIZE
    /\ section.content[1].src = WS
    /\ Len(section_chunks) = 1

\* The record has every field the code reads.
AllFields(data) ==
    /\ {"letter", "title", "sections"} \subseteq DOMAIN data
    /\ \A s \in 1..Len(data.sections) :
         {"id", "title", "content"} \subseteq DOMAIN data.sections[s]

\* What main writes for a corpus: every appendix processed, the whole list
\* merged, then numbered.
RECURSIVE ChunksOf(_)
ChunksOf(c) ==
    IF c = <<>> THEN <<>>
    ELSE process_appendix(Head(c)).chunks \o ChunksOf(Tail(c))

\* C9: main goes past an appendix only if the record and its sections have
\* every required field; a missing field ends the run with nothing written,
\* and nothing runs after it; the file is written only when every appendix has
\* been processed, and holds the merged and numbered chunks of them all.
C9_MissingFieldAborts ==
    /\ \A a \in 1..Len(corpus) : AllFields(corpus[a])
    /\ (error # "none") <=> (pc = "aborted")
    /\ pc = "aborted" => (~output.written /\ ~ENABLED Next)
    /\ output.written =>
         /\ files = <<>>
         /\ error = "none"
         /\ output.chunks = AddIdsTo(merge_small_chunks(ChunksOf(corpus)))

\* C9 witness: the run aborted on a section without content, after an appendix
\* that gave chunks, and wrote nothing.
C9_Witness ==
    /\ pc = "aborted"
    /\ error = "content"
    /\ all_chunks # <<>>
    /\ ~output.written

\* C10: a written chunk holds only text of the appendix its appendix and
\* appendix_title fields name.
C10_OneAppendixPerChunk ==
    pc = "done" =>
        \A i \in 1..Len(output.chunks) :
            \A src \in Origins(output.chunks[i].text) :
                /\ output.chunks[i].appendix = Letter(src[1])
                /\ output.chunks[i].appendix_title = <<"appendix", src[1]>>

====
